---- MODULE Spec2Model ----
(***************************************************************************)
(* Bill-of-materials expansion and stock allocation behind the single      *)
(* endpoint POST materials/ (src/api/urls.py).                             *)
(*                                                                         *)
(* The repository holds the pipeline twice: as the methods of              *)
(* ProductMaterialsAPIView (src/api/views.py), which its post() calls, and *)
(* as the service layer (src/app/services.py, src/app/validators.py),      *)
(* whose three steps have the same signatures.  The variable impl says     *)
(* which copy of the steps a request runs through; the driver loop is      *)
(* post() in both cases.                                                   *)
(*                                                                         *)
(* Quantities, remainders and prices are Python numbers; the model keeps   *)
(* the integer-valued ones (which floats represent exactly).               *)
(***************************************************************************)
EXTENDS Integers, Sequences, FiniteSets, TLC

\* ---------------------------------------------------------------- bounds
MaxLots == 2        \* rows of the Warehouse table
MaxRem == 2         \* largest stored remainder
MaxPrice == 2       \* largest unit price
MaxReq == 2         \* entries of one request payload
MaxQty == 2         \* largest requested quantity
MaxNeg == 1         \* requested quantities go down to -MaxNeg

\* ---------------------------------------------------------- reference data
None == 0 - 1       \* Python's None in an AllocationLine

Impls == {"views", "services"}

Products == {1, 2}              \* ids of the Product table
RequestIds == {1, 2, 3}         \* ids a client may send; 3 is not a Product
Materials == {1, 2}             \* ids of the Material table

ProductName(p) == IF p = 1 THEN "table" ELSE "chair"
MaterialName(m) == IF m = 1 THEN "wood" ELSE "steel"

PM(p, m, q) == [product_id |-> p, material_id |-> m, quantity |-> q]

\* ProductMaterial tables, rows in the order the query returns them.
\* unique_together = (product, material).
BomTables ==
    { << PM(2, 1, 1), PM(1, 2, 1), PM(1, 1, 2) >>,
      << PM(1, 1, 1), PM(1, 2, 2) >> }

WarehouseRow(i, m, r, p) == [id |-> i, material_id |-> m, remainder |-> r, price |-> p]

LotValues == [material_id : Materials, remainder : 0..MaxRem, price : 1..MaxPrice]

\* Warehouse tables: row i has primary key i.
StockTables ==
    UNION { { [i \in 1..n |-> WarehouseRow(i, f[i].material_id, f[i].remainder, f[i].price)]
              : f \in [1..n -> LotValues] } : n \in 0..MaxLots }

\* ------------------------------------------------------------- payloads
\* A JSON value of an entry: an integer, a string, or the key is absent.
IntV(n) == [t |-> "int", v |-> n]
StrV(n) == [t |-> "str", v |-> n]       \* a string of digits, e.g. "1"
Missing == [t |-> "missing", v |-> 0]

Quantities == (0 - MaxNeg)..MaxQty

WellTyped == { [product |-> IntV(p), quantity |-> IntV(q)] : p \in RequestIds, q \in Quantities }

IllTyped ==
    { [product |-> Missing, quantity |-> IntV(1)],
      [product |-> IntV(1), quantity |-> Missing],
      [product |-> StrV(1), quantity |-> IntV(1)],
      [product |-> IntV(1), quantity |-> StrV(1)] }

Entries == WellTyped \cup IllTyped

\* kind "list": a JSON array of objects; "dict": a non-empty JSON object;
\* "number": a non-zero JSON number.
Payloads ==
    { [kind |-> "list", entries |-> e] :
        e \in UNION { [1..n -> Entries] : n \in 0..MaxReq } }
    \cup { [kind |-> "dict", entries |-> << >>], [kind |-> "number", entries |-> << >>] }

\* ------------------------------------------------------------- helpers
\* Mutant of Min: a lot that is taken whole keeps one unit.
MinLeaveOne(a, b) == IF a <= b THEN (IF a > 1 THEN a - 1 ELSE a) ELSE b

Min(a, b) == IF a <= b THEN a ELSE b

RECURSIVE SumSeq(_)
SumSeq(s) == IF s = << >> THEN 0 ELSE Head(s) + SumSeq(Tail(s))

RECURSIVE Flatten(_)
Flatten(ss) == IF ss = << >> THEN << >> ELSE Head(ss) \o Flatten(Tail(ss))

Range(s) == { s[i] : i \in 1..Len(s) }

\* ---------------------------------------------------------- validation
\* Outcome of the boundary check: "ok", "rejected" (ValidationError, a
\* client error) or "crashed" (an uncaught exception, a server error).
validate_request(payload) ==
    IF payload.kind = "list" /\ payload.entries = << >> THEN "rejected"
    ELSE IF payload.kind = "number" THEN "crashed"       \* for ... in 5: TypeError
    ELSE IF payload.kind = "dict" THEN "rejected"        \* iterates the keys: not dicts
    ELSE IF \E i \in 1..Len(payload.entries) :
                \/ payload.entries[i].product.t = "missing"
                \/ payload.entries[i].quantity.t = "missing"
         THEN "rejected"
    ELSE "ok"

validate_product_request(payload) ==
    IF payload.kind = "list" /\ payload.entries = << >> THEN "rejected"
    ELSE IF payload.kind # "list" THEN "rejected"
    ELSE IF \E i \in 1..Len(payload.entries) :
                \/ payload.entries[i].product.t = "missing"
                \/ payload.entries[i].quantity.t = "missing"
                \/ payload.entries[i].product.t # "int"
                \/ payload.entries[i].quantity.t # "int"
         THEN "rejected"
    ELSE "ok"

Validate(im, payload) ==
    IF im = "views" THEN validate_request(payload) ELSE validate_product_request(payload)

\* ------------------------------------------------- Python's ordered dict
\* A dict is the sequence of its items in insertion order.
HasKey(d, k) == \E i \in 1..Len(d) : d[i].key = k

Lookup(d, k) == d[CHOOSE i \in 1..Len(d) : d[i].key = k].value

\* d[k] = v: a new key goes last, a known key keeps its place.
DictSet(d, k, v) ==
    IF HasKey(d, k)
    THEN [i \in 1..Len(d) |-> IF d[i].key = k THEN [key |-> k, value |-> v] ELSE d[i]]
    ELSE Append(d, [key |-> k, value |-> v])

Keys(d) == [i \in 1..Len(d) |-> d[i].key]

Values(d) == [i \in 1..Len(d) |-> d[i].value]

\* ------------------------------------------------------- post(): lookups
\* product_ids = [p["product"] for p in products_data]
ProductIdsOf(entries) == [i \in 1..Len(entries) |-> entries[i].product]

\* {p.id: p for p in Product.objects.filter(id__in=product_ids)}: the ORM
\* converts a string of digits to the integer it spells.
FindProducts(product_ids) ==
    { p \in Products : \E i \in 1..Len(product_ids) : product_ids[i].v = p }

\* Mutant of ProductQuantities: a list of pairs, one per entry, nothing merged.
ProductQuantitiesUnmerged(entries) ==
    [i \in 1..Len(entries) |-> [key |-> entries[i].product, value |-> entries[i].quantity]]

\* Mutant of ProductQuantities: the dict is filled from the last entry to the first.
RECURSIVE ProductQuantitiesReversed(_)
ProductQuantitiesReversed(entries) ==
    IF entries = << >> THEN << >>
    ELSE DictSet(ProductQuantitiesReversed(Tail(entries)),
                 Head(entries).product, Head(entries).quantity)

\* {p["product"]: p["quantity"] for p in products_data}
RECURSIVE ProductQuantities(_)
ProductQuantities(entries) ==
    IF entries = << >> THEN << >>
    ELSE LET n == Len(entries)
         IN  DictSet(ProductQuantities(SubSeq(entries, 1, n - 1)),
                     entries[n].product, entries[n].quantity)

\* ------------------------------------------------------------ expansion
\* ProductMaterial.objects.filter(product_id__in=product_quantities.keys())
BomRows(table, pq) ==
    SelectSeq(table, LAMBDA r : \E i \in 1..Len(pq) : pq[i].key.v = r.product_id)

\* material.quantity *= product_quantities[material.product_id] raises
\* KeyError when the integer id is no key, TypeError when the value is a string.
RowRaises(r, pq) ==
    \/ ~HasKey(pq, IntV(r.product_id))
    \/ Lookup(pq, IntV(r.product_id)).t # "int"

\* Mutant of Multiplied: the row keeps its per-unit quantity.
Unmultiplied(r, pq) == r

Multiplied(r, pq) ==
    [r EXCEPT !.quantity = r.quantity * Lookup(pq, IntV(r.product_id)).v]

\* Mutant of GroupByMaterial: every row makes an item of its own, in row order.
Ungrouped(rows, pq) ==
    [i \in 1..Len(rows) |->
        [key |-> rows[i].material_id, value |-> << Multiplied(rows[i], pq) >>]]

\* materials_by_type[material.material_id].append(material)
RECURSIVE GroupByMaterial(_, _)
GroupByMaterial(rows, pq) ==
    IF rows = << >> THEN << >>
    ELSE LET n == Len(rows)
             d == GroupByMaterial(SubSeq(rows, 1, n - 1), pq)
             r == Multiplied(rows[n], pq)
             k == r.material_id
         IN  DictSet(d, k, IF HasKey(d, k) THEN Append(Lookup(d, k), r) ELSE << r >>)

\* [ok |-> FALSE] when the loop raises, else the dict material id -> rows.
get_required_materials(table, pq) ==
    LET rows == BomRows(table, pq)
    IN  IF \E i \in 1..Len(rows) : RowRaises(rows[i], pq)
        THEN [ok |-> FALSE, value |-> << >>]
        ELSE [ok |-> TRUE, value |-> GroupByMaterial(rows, pq)]

ProductMaterialService_get_required_materials(table, pq) ==
    LET rows == BomRows(table, pq)
    IN  IF \E i \in 1..Len(rows) : RowRaises(rows[i], pq)
        THEN [ok |-> FALSE, value |-> << >>]
        ELSE [ok |-> TRUE, value |-> GroupByMaterial(rows, pq)]

RequiredMaterials(im, table, pq) ==
    IF im = "views" THEN get_required_materials(table, pq)
    ELSE ProductMaterialService_get_required_materials(table, pq)

\* ---------------------------------------------------------- stock index
\* .order_by('price'): rows of equal price keep the table's order.
RECURSIVE InsertByPrice(_, _)
InsertByPrice(x, sorted) ==
    IF sorted = << >> THEN << x >>
    ELSE IF x.price <= Head(sorted).price THEN << x >> \o sorted
    ELSE << Head(sorted) >> \o InsertByPrice(x, Tail(sorted))

RECURSIVE OrderByPrice(_)
OrderByPrice(rows) ==
    IF rows = << >> THEN << >>
    ELSE InsertByPrice(Head(rows), OrderByPrice(Tail(rows)))

\* Warehouse.objects.filter(material_id__in=...).order_by('price'), grouped
\* by material id; a material without rows is no key of the result.
GroupStock(stock_data) ==
    [m \in { stock_data[i].material_id : i \in 1..Len(stock_data) } |->
        SelectSeq(stock_data, LAMBDA w : w.material_id = m)]

get_stock_for_materials(table, product_materials) ==
    GroupStock(OrderByPrice(
        SelectSeq(table, LAMBDA w : w.material_id \in Range(Keys(product_materials)))))

WarehouseService_get_stock_for_materials(table, material_ids) ==
    GroupStock(OrderByPrice(SelectSeq(table, LAMBDA w : w.material_id \in material_ids)))

StockFor(im, table, product_materials) ==
    IF im = "views" THEN get_stock_for_materials(table, product_materials)
    ELSE WarehouseService_get_stock_for_materials(table, Range(Keys(product_materials)))

\* ------------------------------------------------------------ allocator
LotLine(w, m, take) ==
    [warehouse_id |-> w.id, material |-> MaterialName(m), qty |-> take, price |-> w.price]

ShortfallLine(m, q) ==
    [warehouse_id |-> None, material |-> MaterialName(m), qty |-> q, price |-> None]

\* The for loop of views.py: every lot of the material is visited.
\* items: the material's Warehouse objects; i: the next one to visit;
\* quantity: what is still needed; out: the lines appended so far.
RECURSIVE ViewLoop(_, _, _, _, _)
ViewLoop(items, m, i, quantity, out) ==
    IF i > Len(items) THEN [items |-> items, quantity |-> quantity, lines |-> out]
    ELSE IF items[i].remainder <= 0 THEN ViewLoop(items, m, i + 1, quantity, out)
    ELSE LET take_quantity == Min(items[i].remainder, quantity)
         IN  ViewLoop([items EXCEPT ![i].remainder = @ - take_quantity], m, i + 1,
                      quantity - take_quantity,
                      Append(out, LotLine(items[i], m, take_quantity)))

\* The for loop of services.py: it breaks once remaining_quantity <= 0.
RECURSIVE ServiceLoop(_, _, _, _, _)
ServiceLoop(items, m, i, remaining_quantity, out) ==
    IF i > Len(items)
    THEN [items |-> items, quantity |-> remaining_quantity, lines |-> out]
    ELSE IF items[i].remainder <= 0
    THEN ServiceLoop(items, m, i + 1, remaining_quantity, out)
    ELSE LET take_quantity == Min(items[i].remainder, remaining_quantity)
             taken == [items EXCEPT ![i].remainder = @ - take_quantity]
             lines == Append(out, LotLine(items[i], m, take_quantity))
         IN  IF remaining_quantity - take_quantity <= 0
             THEN [items |-> taken, quantity |-> remaining_quantity - take_quantity,
                   lines |-> lines]
             ELSE ServiceLoop(taken, m, i + 1, remaining_quantity - take_quantity, lines)

\* Mutant of WithShortfall: the unmet rest is reported first.
WithShortfallFirst(lines, m, quantity) ==
    IF quantity > 0 THEN << ShortfallLine(m, quantity) >> \o lines ELSE lines

\* Mutant of WithShortfall: a rest of zero is reported too.
WithShortfallAlways(lines, m, quantity) ==
    IF quantity >= 0 THEN Append(lines, ShortfallLine(m, quantity)) ELSE lines

\* if quantity > 0: append the line with None values
WithShortfall(lines, m, quantity) ==
    IF quantity > 0 THEN Append(lines, ShortfallLine(m, quantity)) ELSE lines

\* Mutant of get_stock_distribution: the loop works on copies of the Warehouse
\* objects, so the caller's stock index is left as it was.
get_stock_distribution_on_copy(stock, material, quantity) ==
    IF material \notin DOMAIN stock
    THEN [stock |-> stock, lines |-> << ShortfallLine(material, quantity) >>]
    ELSE LET r == ViewLoop(stock[material], material, 1, quantity, << >>)
         IN  [stock |-> stock,
              lines |-> WithShortfall(r.lines, material, r.quantity)]

\* Mutant of WarehouseService.get_stock_distribution: a material without stock
\* yields no line at all.
WarehouseService_get_stock_distribution_empty(stock, material, quantity) ==
    IF material \notin DOMAIN stock
    THEN [stock |-> stock, lines |-> << >>]
    ELSE LET r == ServiceLoop(stock[material], material, 1, quantity, << >>)
         IN  [stock |-> [stock EXCEPT ![material] = r.items],
              lines |-> WithShortfall(r.lines, material, r.quantity)]

\* Both return the lines and the stock index as the call leaves it (the
\* Warehouse objects are changed in place).
get_stock_distribution(stock, material, quantity) ==
    IF material \notin DOMAIN stock
    THEN [stock |-> stock, lines |-> << ShortfallLine(material, quantity) >>]
    ELSE LET r == ViewLoop(stock[material], material, 1, quantity, << >>)
         IN  [stock |-> [stock EXCEPT ![material] = r.items],
              lines |-> WithShortfall(r.lines, material, r.quantity)]

WarehouseService_get_stock_distribution(stock, material, quantity) ==
    IF material \notin DOMAIN stock
    THEN [stock |-> stock, lines |-> << ShortfallLine(material, quantity) >>]
    ELSE LET r == ServiceLoop(stock[material], material, 1, quantity, << >>)
         IN  [stock |-> [stock EXCEPT ![material] = r.items],
              lines |-> WithShortfall(r.lines, material, r.quantity)]

Distribute(im, stock, material, quantity) ==
    IF im = "views" THEN get_stock_distribution(stock, material, quantity)
    ELSE WarehouseService_get_stock_distribution(stock, material, quantity)

\* ------------------------------------------------- post(): result loop
\* One allocator call as the history records it.
CallRecord(p, pm, before, d) ==
    [product_id |-> p, material_id |-> pm.material_id, quantity |-> pm.quantity,
     before |-> before, after |-> d.stock, lines |-> d.lines]

\* for material_list in product_materials.values(): for product_material in
\* material_list: if product_material.product_id == product_id: ...
\* rows: the rows still to visit; acc: stock, lines and calls so far.
RECURSIVE MaterialsLoop(_, _, _, _)
MaterialsLoop(im, rows, product_id, acc) ==
    IF rows = << >> THEN acc
    ELSE IF Head(rows).product_id # product_id
    THEN MaterialsLoop(im, Tail(rows), product_id, acc)
    ELSE LET d == Distribute(im, acc.stock, Head(rows).material_id, Head(rows).quantity)
         IN  MaterialsLoop(im, Tail(rows), product_id,
                [stock |-> d.stock,
                 lines |-> acc.lines \o d.lines,
                 calls |-> Append(acc.calls,
                                  CallRecord(product_id, Head(rows), acc.stock, d))])

\* Mutant of KeyFound: the check against the products found is left out.
KeyFoundAny(key, found) == key.t = "int"

\* if product_id not in products: continue
KeyFound(key, found) == key.t = "int" /\ key.v \in found

\* Mutant of ProductIteration: the product's entry is put first in the result.
ProductIterationFirst(im, it, found, product_materials, st, res, cs) ==
    IF ~KeyFound(it.key, found)
    THEN [stock |-> st, result |-> res, calls |-> cs]
    ELSE LET acc == MaterialsLoop(im, Flatten(Values(product_materials)), it.key.v,
                                  [stock |-> st, lines |-> << >>, calls |-> cs])
         IN  [stock |-> acc.stock,
              result |-> << [product_name |-> ProductName(it.key.v),
                             product_qty |-> it.value,
                             product_materials |-> acc.lines] >> \o res,
              calls |-> acc.calls]

\* One iteration of "for product_id in product_quantities" for the item it
\* of the dict: the stock, the result and the call history it leaves.
ProductIteration(im, it, found, product_materials, st, res, cs) ==
    IF ~KeyFound(it.key, found)
    THEN [stock |-> st, result |-> res, calls |-> cs]
    ELSE LET acc == MaterialsLoop(im, Flatten(Values(product_materials)), it.key.v,
                                  [stock |-> st, lines |-> << >>, calls |-> cs])
         IN  [stock |-> acc.stock,
              result |-> Append(res, [product_name |-> ProductName(it.key.v),
                                      product_qty |-> it.value,
                                      product_materials |-> acc.lines]),
              calls |-> acc.calls]

NoPayload == [kind |-> "list", entries |-> << >>]

EmptyStock == [m \in {} |-> << >>]

\* for product_id in product_quantities: the iterations from item k on.
RECURSIVE ResultLoop(_, _, _, _, _, _)
ResultLoop(im, pq, k, found, pmats, acc) ==
    IF k > Len(pq) THEN acc
    ELSE ResultLoop(im, pq, k + 1, found, pmats,
                    ProductIteration(im, pq[k], found, pmats,
                                     acc.stock, acc.result, acc.calls))

\* post() after validation, as a function of the tables and the entries:
\* whether it returns, and the stock, result and calls it ends with.
Pass(im, table, stored, entries) ==
    LET pq == ProductQuantities(entries)
        rm == RequiredMaterials(im, table, pq)
        r == ResultLoop(im, pq, 1, FindProducts(ProductIdsOf(entries)), rm.value,
                        [stock |-> StockFor(im, stored, rm.value),
                         result |-> << >>, calls |-> << >>])
    IN  IF rm.ok
        THEN [ok |-> TRUE, stock |-> r.stock, result |-> r.result, calls |-> r.calls]
        ELSE [ok |-> FALSE, stock |-> EmptyStock, result |-> << >>, calls |-> << >>]

\* ------------------------------------------------------- state machine
VARIABLES
    impl,               \* which copy of the steps serves the requests
    bom,                \* the ProductMaterial table
    db,                 \* the Warehouse table as stored
    db0,                \* history: the Warehouse table before the first request
    served,             \* history: an earlier request has been answered
    pc,                 \* "idle", "loop", "done", "rejected", "crashed"
    payload,            \* request.data of the request being served
    products,           \* ids of the Product rows found
    product_quantities, \* dict product id -> quantity
    product_materials,  \* dict material id -> expanded ProductMaterial rows
    stock,              \* dict material id -> Warehouse objects of this pass
    cursor,             \* position of the result loop in product_quantities
    result,             \* the result list built so far
    calls,              \* history: the allocator calls of this pass, in order
    response            \* the body returned, once pc = "done"

vars == << impl, bom, db, db0, served, pc, payload, products, product_quantities,
           product_materials, stock, cursor, result, calls, response >>

Init ==
    /\ impl \in Impls
    /\ bom \in BomTables
    /\ db \in StockTables
    /\ db0 = db
    /\ served = FALSE
    /\ pc = "idle"
    /\ payload = NoPayload
    /\ products = {}
    /\ product_quantities = << >>
    /\ product_materials = << >>
    /\ stock = EmptyStock
    /\ cursor = 0
    /\ result = << >>
    /\ calls = << >>
    /\ response = << >>

\* Mutant of Stored: every Warehouse object of the pass is saved.
StoredSaved(table, st) ==
    [i \in 1..Len(table) |->
        IF table[i].material_id \in DOMAIN st
        THEN LET its == st[table[i].material_id]
                 j == CHOOSE k \in 1..Len(its) : its[k].id = table[i].id
             IN  [table[i] EXCEPT !.remainder = its[j].remainder]
        ELSE table[i]]

\* The Warehouse table after post() has returned: no row is ever saved.
Stored(table, st) == table

\* post(), lines 153-172: validation, lookups, expansion, stock index.
Post_Begin(p) ==
    /\ pc = "idle"
    /\ payload' = p
    /\ UNCHANGED << impl, bom, db, db0, served, response >>
    /\ LET v == Validate(impl, p)
           pq == ProductQuantities(p.entries)
           rm == RequiredMaterials(impl, bom, pq)
       IN  IF v # "ok" \/ ~rm.ok
           THEN /\ pc' = IF v # "ok" THEN v ELSE "crashed"
                /\ UNCHANGED << products, product_quantities, product_materials,
                                stock, cursor, result, calls >>
           ELSE /\ pc' = "loop"
                /\ products' = FindProducts(ProductIdsOf(p.entries))
                /\ product_quantities' = pq
                /\ product_materials' = rm.value
                /\ stock' = StockFor(impl, db, rm.value)
                /\ cursor' = 1
                /\ result' = << >>
                /\ calls' = << >>

\* post(), lines 175-200: one iteration of the loop over product_quantities.
Post_Product ==
    /\ pc = "loop"
    /\ cursor <= Len(product_quantities)
    /\ LET it == ProductIteration(impl, product_quantities[cursor], products,
                                  product_materials, stock, result, calls)
       IN  /\ stock' = it.stock
           /\ result' = it.result
           /\ calls' = it.calls
    /\ cursor' = cursor + 1
    /\ UNCHANGED << impl, bom, db, db0, served, pc, payload, products,
                    product_quantities, product_materials, response >>

\* post(), line 203: return Response({"result": result}).
Post_Return ==
    /\ pc = "loop"
    /\ cursor > Len(product_quantities)
    /\ pc' = "done"
    /\ response' = result
    /\ db' = Stored(db, stock)
    /\ UNCHANGED << impl, bom, db0, served, payload, products, product_quantities,
                    product_materials, stock, cursor, result, calls >>

\* The request is over; the objects of the pass are dropped and the server
\* waits for the next request.
NextRequest ==
    /\ pc \in {"done", "rejected", "crashed"}
    /\ pc' = "idle"
    /\ payload' = NoPayload
    /\ products' = {}
    /\ product_quantities' = << >>
    /\ product_materials' = << >>
    /\ stock' = EmptyStock
    /\ cursor' = 0
    /\ result' = << >>
    /\ calls' = << >>
    /\ response' = << >>
    /\ served' = (served \/ pc = "done")
    /\ UNCHANGED << impl, bom, db, db0 >>

Next ==
    \/ \E p \in Payloads : Post_Begin(p)
    \/ Post_Product
    \/ Post_Return
    \/ NextRequest

Spec == Init /\ [][Next]_vars

\* ============================================================== claims
Qtys(lines) == [i \in 1..Len(lines) |-> lines[i].qty]

IsShortfall(l) == l.warehouse_id = None /\ l.price = None

IsLotLine(l) == l.warehouse_id # None /\ l.price # None

\* The lines of all calls of the pass so far, in the order they were emitted.
Emitted(cs) == Flatten([i \in 1..Len(cs) |-> cs[i].lines])

\* The lines of the calls for material m so far, in the order they were emitted.
EmittedFor(cs, m) == Emitted(SelectSeq(cs, LAMBDA c : c.material_id = m))

\* C1 - Conservation: the quantities of the lines one allocator call returns
\* (lot lines and the shortfall line) add up to the quantity it was called with.
C1_Conservation ==
    \A i \in 1..Len(calls) : SumSeq(Qtys(calls[i].lines)) = calls[i].quantity

\* A call that drew from a lot and also reported a shortfall.
C1_Witness ==
    \E i \in 1..Len(calls) :
        /\ Len(calls[i].lines) >= 2
        /\ IsLotLine(calls[i].lines[1])
        /\ IsShortfall(calls[i].lines[Len(calls[i].lines)])
        /\ calls[i].quantity > 0

\* C2 - Within a pass no allocator call of a validated request raises a lot's
\* remainder, and no remainder goes below zero.
C2_RemainderMonotone ==
    \A i \in 1..Len(calls) :
        \A m \in DOMAIN calls[i].before :
            \A j \in 1..Len(calls[i].before[m]) :
                /\ calls[i].after[m][j].remainder <= calls[i].before[m][j].remainder
                /\ calls[i].after[m][j].remainder >= 0

\* C3 - Cheapest first across the pass: the prices of the lot lines emitted for
\* one material, taken over all calls of the pass in order, never decrease.
C3_CheapestFirst ==
    \A m \in Materials :
        LET ls == SelectSeq(EmittedFor(calls, m), LAMBDA l : l.price # None)
        IN  \A i \in 1..Len(ls) : \A j \in i..Len(ls) : ls[i].price <= ls[j].price

\* C4 - Shared depletion: when the pass is over, the lines of the response that
\* name a lot add up to what the lot lost, and to no more than it had.
FinalRemainder(w) ==
    IF w.material_id \in DOMAIN stock
    THEN LET its == stock[w.material_id]
         IN  its[CHOOSE k \in 1..Len(its) : its[k].id = w.id].remainder
    ELSE w.remainder

ResponseLines == Flatten([i \in 1..Len(response) |-> response[i].product_materials])

DrawnFrom(w) == SumSeq(Qtys(SelectSeq(ResponseLines, LAMBDA l : l.warehouse_id = w.id)))

C4_SharedDepletion ==
    pc = "done" =>
        \A i \in 1..Len(db0) :
            /\ DrawnFrom(db0[i]) = db0[i].remainder - FinalRemainder(db0[i])
            /\ DrawnFrom(db0[i]) <= db0[i].remainder

\* One lot of the material; the first demand leaves part of it, the second
\* takes the rest and is short of the remaining quantity; the lot ends at 0.
C4_Witness ==
    /\ pc = "done"
    /\ \E i \in 1..Len(calls) : \E j \in (i + 1)..Len(calls) :
           /\ calls[i].material_id = calls[j].material_id
           /\ calls[i].product_id # calls[j].product_id
           /\ calls[i].material_id \in DOMAIN calls[i].before
           /\ LET m == calls[i].material_id
                  w == calls[i].before[m]
                  left == w[1].remainder - calls[i].quantity
              IN  /\ Len(w) = 1
                  /\ calls[i].quantity > 0
                  /\ left > 0
                  /\ calls[j].quantity > left
                  /\ Qtys(calls[i].lines) = << calls[i].quantity >>
                  /\ Qtys(calls[j].lines) = << left, calls[j].quantity - left >>
                  /\ IsLotLine(calls[j].lines[1])
                  /\ IsShortfall(calls[j].lines[2])
                  /\ stock[m][1].remainder = 0

\* C5 - Shortfall placement: in the lines of one call only the last may be a
\* shortfall line; a line has a null lot id exactly when it has a null price.
C5_ShortfallLast ==
    \A i \in 1..Len(calls) :
        \A j \in 1..Len(calls[i].lines) :
            /\ (calls[i].lines[j].warehouse_id = None) = (calls[i].lines[j].price = None)
            /\ j < Len(calls[i].lines) => IsLotLine(calls[i].lines[j])

\* A call whose lines are lot lines followed by the shortfall line.
C5_Witness ==
    \E i \in 1..Len(calls) :
        /\ Len(calls[i].lines) >= 2
        /\ IsShortfall(calls[i].lines[Len(calls[i].lines)])
        /\ IsLotLine(calls[i].lines[Len(calls[i].lines) - 1])

\* A payload both validators accept: a non-empty list of entries whose
\* product and quantity are integers.
WellTypedPayload ==
    /\ payload.kind = "list"
    /\ payload.entries # << >>
    /\ \A i \in 1..Len(payload.entries) : payload.entries[i] \in WellTyped

\* The positions of the entries that ask for product p.
EntriesFor(p) == { i \in 1..Len(payload.entries) : payload.entries[i].product = IntV(p) }

ResultsFor(p) == SelectSeq(response, LAMBDA r : r.product_name = ProductName(p))

CallsFor(p) == SelectSeq(calls, LAMBDA c : c.product_id = p)

\* C6 as the spec states it - Repeated products: every entry of the request
\* yields its own ProductResult, computed from its own quantity.
C6_RepeatedIndependent ==
    (pc = "done" /\ WellTypedPayload) =>
        \A p \in Products :
            [i \in 1..Len(ResultsFor(p)) |-> ResultsFor(p)[i].product_qty]
              = [i \in 1..Len(SelectSeq(payload.entries, LAMBDA e : e.product = IntV(p)))
                    |-> SelectSeq(payload.entries, LAMBDA e : e.product = IntV(p))[i].quantity]

\* C6 as amended - Repeated products are merged: a product requested in several
\* entries gets one ProductResult and one allocator call per bill-of-materials
\* line, all computed from the quantity of its last entry.
LastQuantity(p) ==
    payload.entries[CHOOSE i \in EntriesFor(p) : \A j \in EntriesFor(p) : j <= i].quantity

BomOf(p) == SelectSeq(bom, LAMBDA r : r.product_id = p)

C6_RepeatedMerged ==
    (pc = "done" /\ WellTypedPayload) =>
        \A p \in Products :
            EntriesFor(p) # {} =>
                /\ Len(ResultsFor(p)) = 1
                /\ ResultsFor(p)[1].product_qty = LastQuantity(p)
                /\ Len(CallsFor(p)) = Len(BomOf(p))
                /\ \A i \in 1..Len(CallsFor(p)) :
                       \E j \in 1..Len(BomOf(p)) :
                           /\ BomOf(p)[j].material_id = CallsFor(p)[i].material_id
                           /\ CallsFor(p)[i].quantity
                                = BomOf(p)[j].quantity * LastQuantity(p).v

\* A product requested twice with different quantities, and allocated.
C6_Witness ==
    /\ pc = "done"
    /\ WellTypedPayload
    /\ \E p \in Products :
           /\ Cardinality(EntriesFor(p)) = 2
           /\ payload.entries[1].quantity # payload.entries[2].quantity
           /\ payload.entries[1].quantity.v > 0
           /\ payload.entries[2].quantity.v > 0
           /\ CallsFor(p) # << >>

\* C7 - Result order: one ProductResult per requested product that exists, in
\* the order the products were requested (first mention), and the allocator
\* calls of an earlier product all come before those of a later one.
RECURSIVE Dedup(_)
Dedup(ids) ==
    IF ids = << >> THEN << >>
    ELSE LET n == Len(ids)
             d == Dedup(SubSeq(ids, 1, n - 1))
         IN  IF ids[n] \in Range(d) THEN d ELSE Append(d, ids[n])

RequestedKnown ==
    SelectSeq(Dedup([i \in 1..Len(payload.entries) |-> payload.entries[i].product.v]),
              LAMBDA p : p \in Products)

PositionOf(p) == CHOOSE i \in 1..Len(RequestedKnown) : RequestedKnown[i] = p

C7_ResultOrder ==
    (pc = "done" /\ WellTypedPayload) =>
        /\ [i \in 1..Len(response) |-> response[i].product_name]
             = [i \in 1..Len(RequestedKnown) |-> ProductName(RequestedKnown[i])]
        /\ \A i \in 1..Len(calls) : \A j \in i..Len(calls) :
               PositionOf(calls[i].product_id) <= PositionOf(calls[j].product_id)

\* Two different products answered, each with allocator calls of its own.
C7_Witness ==
    /\ pc = "done"
    /\ WellTypedPayload
    /\ Len(response) = 2
    /\ \A p \in Products : CallsFor(p) # << >>

\* C8 - Unknown product: an id that is no Product raises no error, gets no
\* ProductResult and no allocator call, and the response, the calls and the
\* stock are those of the request without the entries for it.
HasUnknown == \E i \in 1..Len(payload.entries) : payload.entries[i].product.v \notin Products

KnownEntries == SelectSeq(payload.entries, LAMBDA e : e.product.v \in Products)

C8_UnknownProduct ==
    (WellTypedPayload /\ HasUnknown) =>
        /\ pc \notin {"rejected", "crashed"}
        /\ \A i \in 1..Len(calls) : calls[i].product_id \in Products
        /\ pc = "done" =>
              LET alone == Pass(impl, bom, db0, KnownEntries)
              IN  /\ response = alone.result
                  /\ calls = alone.calls
                  /\ stock = alone.stock

\* An unknown product requested before a known one that is allocated.
C8_Witness ==
    /\ pc = "done"
    /\ WellTypedPayload
    /\ payload.entries[1].product.v \notin Products
    /\ Len(response) = 1
    /\ \E i \in 1..Len(calls) : \E j \in 1..Len(calls[i].lines) :
           IsLotLine(calls[i].lines[j]) /\ calls[i].lines[j].qty > 0

\* C9 - No stock: for a material that is no key of the stock index the call
\* returns one line, with null lot id and price and the whole quantity, and
\* leaves the stock index as it was.
C9_NoStock ==
    \A i \in 1..Len(calls) :
        calls[i].material_id \notin DOMAIN calls[i].before =>
            /\ Len(calls[i].lines) = 1
            /\ calls[i].lines[1].warehouse_id = None
            /\ calls[i].lines[1].price = None
            /\ calls[i].lines[1].qty = calls[i].quantity
            /\ calls[i].after = calls[i].before

\* A call for a material without stock while another material has stock.
C9_Witness ==
    \E i \in 1..Len(calls) :
        /\ calls[i].material_id \notin DOMAIN calls[i].before
        /\ DOMAIN calls[i].before # {}
        /\ calls[i].quantity > 0

\* C10 - No persistence: the stored Warehouse table never changes, so every
\* request, the first or a later one, is answered as it would be alone on the
\* table as it was before the first request.
C10_NoPersistence ==
    /\ db = db0
    /\ pc = "done" => response = Pass(impl, bom, db0, payload.entries).result

\* A later request has been answered and its pass has drawn from a lot that is
\* stored with its remainder untouched.
C10_Witness ==
    /\ served
    /\ pc = "done"
    /\ \E i \in 1..Len(db) :
           /\ db[i].material_id \in DOMAIN stock
           /\ FinalRemainder(db[i]) < db[i].remainder

\* C11 - Expansion: every ProductMaterial row of a requested product yields
\* exactly one demand line, with that product, that material and the per-unit
\* quantity times the product's requested quantity; there are no other demand
\* lines, so rows of different products that share a material stay apart and a
\* product without rows adds nothing.
DemandLines == Flatten(Values(product_materials))

Requested(r) == \E i \in 1..Len(payload.entries) : payload.entries[i].product.v = r.product_id

C11_Expansion ==
    pc \in {"loop", "done"} =>
        /\ \A j \in 1..Len(bom) :
               Requested(bom[j]) =>
                   \E k \in 1..Len(DemandLines) :
                       /\ DemandLines[k].product_id = bom[j].product_id
                       /\ DemandLines[k].material_id = bom[j].material_id
                       /\ DemandLines[k].quantity
                            = bom[j].quantity
                                * Lookup(product_quantities, IntV(bom[j].product_id)).v
                       /\ \A n \in 1..Len(DemandLines) :
                              (/\ DemandLines[n].product_id = bom[j].product_id
                               /\ DemandLines[n].material_id = bom[j].material_id) => n = k
        /\ Len(DemandLines) = Len(SelectSeq(bom, Requested))

\* Two requested products share a material: one demand line each under that
\* material, each with its own multiplied quantity.
C11_Witness ==
    /\ pc = "loop"
    /\ \E i \in 1..Len(product_materials) :
           /\ Len(product_materials[i].value) = 2
           /\ product_materials[i].value[1].product_id
                # product_materials[i].value[2].product_id
           /\ product_materials[i].value[1].quantity = 2
           /\ product_materials[i].value[2].quantity = 4

\* C12 - Boundary rejection: a request whose payload is empty, is no list, or
\* has an entry without 'product' or 'quantity', with a non-integer product id
\* or with a non-numeric quantity, is answered with a validation error, and no
\* expansion or allocation step runs for it.
Malformed ==
    \/ payload.kind # "list"
    \/ payload.entries = << >>
    \/ \E i \in 1..Len(payload.entries) : payload.entries[i] \notin WellTyped

C12_BoundaryRejection ==
    (pc # "idle" /\ Malformed) =>
        /\ pc = "rejected"
        /\ product_materials = << >>
        /\ calls = << >>

\* C13 - Shortfall exactly when stock is insufficient: for a call with Q > 0 on
\* a material of the stock index, with S the sum of the positive remainders of
\* its lots before the call, the lines hold a shortfall line iff S < Q, and its
\* qty is Q - S; one lot with remainder Q gives the single line of qty Q and
\* is left at 0.
RECURSIVE PositiveSum(_)
PositiveSum(items) ==
    IF items = << >> THEN 0
    ELSE (IF Head(items).remainder > 0 THEN Head(items).remainder ELSE 0)
           + PositiveSum(Tail(items))

Shortfalls(lines) == SelectSeq(lines, IsShortfall)

C13_ShortfallIffInsufficient ==
    \A i \in 1..Len(calls) :
        (calls[i].quantity > 0 /\ calls[i].material_id \in DOMAIN calls[i].before) =>
            LET m == calls[i].material_id
                Q == calls[i].quantity
                S == PositiveSum(calls[i].before[m])
            IN  /\ (Shortfalls(calls[i].lines) # << >>) = (S < Q)
                /\ S < Q => Qtys(Shortfalls(calls[i].lines)) = << Q - S >>
                /\ (Len(calls[i].before[m]) = 1 /\ S = Q) =>
                       /\ Len(calls[i].lines) = 1
                       /\ calls[i].lines[1].qty = Q
                       /\ calls[i].lines[1].warehouse_id = calls[i].before[m][1].id
                       /\ calls[i].after[m][1].remainder = 0

\* The partial case: one lot holding less than the demand gives the lot line
\* and then the line with null price for the rest.
PartialCall(c) ==
    /\ c.material_id \in DOMAIN c.before
    /\ LET w == c.before[c.material_id]
       IN  /\ Len(w) = 1
           /\ w[1].remainder > 0
           /\ c.quantity > w[1].remainder
           /\ Qtys(c.lines) = << w[1].remainder, c.quantity - w[1].remainder >>
           /\ IsShortfall(c.lines[2])

\* The exact-fit case: one lot holding just the demand.
ExactFitCall(c) ==
    /\ c.material_id \in DOMAIN c.before
    /\ Len(c.before[c.material_id]) = 1
    /\ c.quantity > 0
    /\ c.before[c.material_id][1].remainder = c.quantity

\* A pass with a partial call and an exact-fit call.
C13_Witness ==
    /\ \E i \in 1..Len(calls) : PartialCall(calls[i])
    /\ \E i \in 1..Len(calls) : ExactFitCall(calls[i])

\* C14 - Stop when satisfied: within one call, once a draw has brought the
\* quantity still needed to zero or below, no later lot gets a line or is
\* changed: the line of that draw is the last line of the call.
NeededAfter(c, j) == c.quantity - SumSeq(Qtys(SubSeq(c.lines, 1, j)))

PositionIn(items, id) == CHOOSE k \in 1..Len(items) : items[k].id = id

C14_StopWhenSatisfied ==
    \A i \in 1..Len(calls) :
        \A j \in 1..Len(calls[i].lines) :
            (IsLotLine(calls[i].lines[j]) /\ NeededAfter(calls[i], j) <= 0) =>
                /\ j = Len(calls[i].lines)
                /\ LET m == calls[i].material_id
                       at == PositionIn(calls[i].before[m], calls[i].lines[j].warehouse_id)
                   IN  \A k \in (at + 1)..Len(calls[i].before[m]) :
                           calls[i].after[m][k] = calls[i].before[m][k]

\* C15 - Exhausted lots are skipped: a lot whose remainder is zero or less when
\* the call starts gets no line and keeps its remainder; when every lot of the
\* material is exhausted, the call returns the single shortfall line for the
\* whole quantity.
Exhausted(w) == w.remainder <= 0

AllExhausted(c) ==
    /\ c.material_id \in DOMAIN c.before
    /\ \A k \in 1..Len(c.before[c.material_id]) : Exhausted(c.before[c.material_id][k])

C15_ExhaustedLotsSkipped ==
    \A i \in 1..Len(calls) :
        calls[i].material_id \in DOMAIN calls[i].before =>
            /\ \A k \in 1..Len(calls[i].before[calls[i].material_id]) :
                   Exhausted(calls[i].before[calls[i].material_id][k]) =>
                       /\ \A j \in 1..Len(calls[i].lines) :
                              calls[i].lines[j].warehouse_id
                                # calls[i].before[calls[i].material_id][k].id
                       /\ calls[i].after[calls[i].material_id][k]
                            = calls[i].before[calls[i].material_id][k]
            /\ AllExhausted(calls[i]) =>
                   /\ Len(calls[i].lines) = 1
                   /\ IsShortfall(calls[i].lines[1])
                   /\ calls[i].lines[1].qty = calls[i].quantity

MaterialsOf(cs) == [i \in 1..Len(cs) |-> cs[i].material_id]

\* C16 as the spec states it - Demand-line order within a product: the
\* allocator is called once per ProductMaterial row of the product, in the order
\* the rows of that product were returned, and product_materials is the lines
\* of those calls in that order.
C16_ExpansionOrder ==
    (pc = "done" /\ WellTypedPayload) =>
        \A p \in Products :
            ResultsFor(p) # << >> =>
                /\ MaterialsOf(CallsFor(p)) = MaterialsOf(BomOf(p))
                /\ ResultsFor(p)[1].product_materials = Emitted(CallsFor(p))

\* C16 as amended - the allocator is called once per ProductMaterial row of the
\* product, in the order of the grouped expansion: by material, in the order in
\* which the materials first appear among the rows returned for all requested
\* products; product_materials is the lines of those calls in that order.
FirstRow(m) ==
    LET rows == SelectSeq(bom, Requested)
    IN  CHOOSE k \in 1..Len(rows) :
            /\ rows[k].material_id = m
            /\ \A n \in 1..(k - 1) : rows[n].material_id # m

C16_GroupedOrder ==
    (pc = "done" /\ WellTypedPayload) =>
        \A p \in Products :
            ResultsFor(p) # << >> =>
                /\ Len(CallsFor(p)) = Len(BomOf(p))
                /\ Range(MaterialsOf(CallsFor(p))) = Range(MaterialsOf(BomOf(p)))
                /\ \A i \in 1..Len(CallsFor(p)) : \A j \in (i + 1)..Len(CallsFor(p)) :
                       FirstRow(CallsFor(p)[i].material_id)
                         < FirstRow(CallsFor(p)[j].material_id)
                /\ ResultsFor(p)[1].product_materials = Emitted(CallsFor(p))

\* A product whose rows were returned in one order of materials and allocated
\* in the other, because another requested product's row came first.
C16_Witness ==
    /\ pc = "done"
    /\ WellTypedPayload
    /\ \E p \in Products :
           /\ Len(BomOf(p)) = 2
           /\ Len(CallsFor(p)) = 2
           /\ CallsFor(p)[1].material_id = BomOf(p)[2].material_id
           /\ CallsFor(p)[2].material_id = BomOf(p)[1].material_id

DistinctIds ==
    \A i \in 1..Len(payload.entries) : \A j \in 1..Len(payload.entries) :
        payload.entries[i].product = payload.entries[j].product => i = j

\* The results of the request cut after its first k entries, on the same tables.
PrefixResult(k) == Pass(impl, bom, db0, SubSeq(payload.entries, 1, k)).result

LinesOf(r, m) == SelectSeq(r.product_materials, LAMBDA l : l.material = MaterialName(m))

\* C17 as the spec states it - Request-order priority: with distinct product
\* ids, the ProductResults of the first k requested products are the same
\* whether or not more products are requested after them.
C17_PrefixIdentical ==
    (pc = "done" /\ WellTypedPayload /\ DistinctIds) =>
        \A k \in 1..(Len(payload.entries) - 1) :
            /\ Len(PrefixResult(k)) <= Len(response)
            /\ \A i \in 1..Len(PrefixResult(k)) : response[i] = PrefixResult(k)[i]

\* C17 as amended - with distinct product ids, the ProductResults of the first
\* k requested products have the same product, quantity and, material by
\* material, the same lines whether or not more products are requested after
\* them; only the order of the materials within product_materials may differ.
C17_PrefixSameLines ==
    (pc = "done" /\ WellTypedPayload /\ DistinctIds) =>
        \A k \in 1..(Len(payload.entries) - 1) :
            /\ Len(PrefixResult(k)) <= Len(response)
            /\ \A i \in 1..Len(PrefixResult(k)) :
                   /\ response[i].product_name = PrefixResult(k)[i].product_name
                   /\ response[i].product_qty = PrefixResult(k)[i].product_qty
                   /\ Len(response[i].product_materials)
                        = Len(PrefixResult(k)[i].product_materials)
                   /\ \A m \in Materials :
                          LinesOf(response[i], m) = LinesOf(PrefixResult(k)[i], m)

\* Two products compete for a lot: the first gets what it would get alone, the
\* second is short of what the first took.
C17_Witness ==
    /\ pc = "done"
    /\ WellTypedPayload
    /\ DistinctIds
    /\ Len(response) = 2
    /\ \E i \in 1..Len(calls) : \E j \in (i + 1)..Len(calls) :
           /\ calls[i].material_id = calls[j].material_id
           /\ calls[i].product_id # calls[j].product_id
           /\ calls[i].quantity > 0
           /\ Shortfalls(calls[i].lines) = << >>
           /\ Shortfalls(calls[j].lines) # << >>
           /\ calls[j].material_id \in DOMAIN calls[j].before
           /\ PositiveSum(calls[i].before[calls[i].material_id]) >= calls[j].quantity

\* C18 - Greedy prefix exhaustion: with non-negative stored remainders and
\* positive demands, after every call of the pass a lot that has been drawn
\* from has only empty lots before it in its material's price order; and in
\* each call every lot drawn from, except the last one drawn, is left at 0.
PositiveSoFar(i) == \A n \in 1..i : calls[n].quantity > 0

Draws(c) == SelectSeq(c.lines, LAMBDA l : IsLotLine(l) /\ l.qty > 0)

C18_GreedyPrefix ==
    \A i \in 1..Len(calls) :
        PositiveSoFar(i) =>
            /\ \A m \in DOMAIN calls[i].after :
                   \A j \in 1..Len(calls[i].after[m]) :
                       calls[i].after[m][j].remainder < calls[1].before[m][j].remainder =>
                           \A k \in 1..(j - 1) : calls[i].after[m][k].remainder = 0
            /\ \A j \in 1..(Len(Draws(calls[i])) - 1) :
                   LET m == calls[i].material_id
                   IN  calls[i].after[m][PositionIn(calls[i].after[m],
                                                    Draws(calls[i])[j].warehouse_id)].remainder = 0

\* A call that empties the cheaper lot and takes part of the dearer one.
C18_Witness ==
    \E i \in 1..Len(calls) :
        /\ PositiveSoFar(i)
        /\ Len(Draws(calls[i])) = 2
        /\ LET m == calls[i].material_id
           IN  /\ calls[i].before[m][1].price < calls[i].before[m][2].price
               /\ calls[i].after[m][1].remainder = 0
               /\ calls[i].after[m][2].remainder > 0
               /\ calls[i].after[m][2].remainder < calls[i].before[m][2].remainder

\* C19 - Positive draws only: every line of a validated request that names a
\* lot has a quantity above zero and at most the remainder the lot had just
\* before the draw.
C19_PositiveDraws ==
    \A i \in 1..Len(calls) : \A j \in 1..Len(calls[i].lines) :
        calls[i].lines[j].warehouse_id # None =>
            LET m == calls[i].material_id
                w == calls[i].before[m][PositionIn(calls[i].before[m],
                                                   calls[i].lines[j].warehouse_id)]
            IN  /\ calls[i].lines[j].qty > 0
                /\ calls[i].lines[j].qty <= w.remainder

====
